---- MODULE Spec2Model ----
(***************************************************************************)
(* Model of the text-to-JSON service of convert.py (main.py) and           *)
(* druid_service.py: three POST handlers that embed the request body in a  *)
(* prompt, call the hosted text-generation model once, and pass the reply  *)
(* through extract_json.                                                   *)
(*                                                                         *)
(* A text is a sequence of lexemes.  "{" "}" ":" "," are the structural    *)
(* characters, "k" (and the two template keys) stand for a double-quoted   *)
(* string literal, "NaN" for the bare constant NaN, and "x" for a run of   *)
(* prose that is no JSON token.                                            *)
(***************************************************************************)
EXTENDS Integers, Sequences, FiniteSets, TLC

\* ------------------------------------------------------------ bounds
MaxText == 5        \* longest text handed to extract_json directly
MaxReply == 4       \* longest enumerated provider reply in the request model
MaxDepth == 2       \* deepest nesting of a serialized object
MaxPad == 1         \* longest brace-free text around a serialized object

\* ------------------------------------------------------------ lexemes
StringLits == {"k", "rollup_suggestions", "druid_ingestion_spec"}
Alphabet == {"{", "}", ":", ",", "k", "NaN", "x"}

RECURSIVE TextsOfLen(_)
TextsOfLen(n) ==
  IF n = 0 THEN {<<>>}
  ELSE {Append(t, c) : t \in TextsOfLen(n - 1), c \in Alphabet}

TextsUpTo(n) == UNION {TextsOfLen(i) : i \in 0..n}

\* ------------------------------------------------------------ JSON values
\* A Python value as json.loads builds it: a str, the float nan, or a dict
\* (a function from keys to values: insertion order is not part of dict
\* equality, and a repeated key keeps its last value).
Str(s) == [t |-> "str", s |-> s, m |-> <<>>]
Nan == [t |-> "nan", s |-> "", m |-> <<>>]
Obj(m) == [t |-> "obj", s |-> "", m |-> m]
EmptyObj == Obj(<<>>)
NoVal == [t |-> "none", s |-> "", m |-> <<>>]

IsObj(v) == v.t = "obj"
HasKey(v, k) == IsObj(v) /\ k \in DOMAIN v.m
Put(m, k, v) == [x \in (DOMAIN m) \cup {k} |-> IF x = k THEN v ELSE m[x]]

\* ------------------------------------------------------------ str methods
Min(a, b) == IF a < b THEN a ELSE b
Max(a, b) == IF a > b THEN a ELSE b

\* str.find: 0-based index of the first occurrence, -1 when there is none.
find(text, c) ==
  LET hits == {i \in 1..Len(text) : text[i] = c}
  IN IF hits = {} THEN -1 ELSE (CHOOSE i \in hits : \A j \in hits : i <= j) - 1

\* str.rfind: 0-based index of the last occurrence, -1 when there is none.
rfind(text, c) ==
  LET hits == {i \in 1..Len(text) : text[i] = c}
  IN IF hits = {} THEN -1 ELSE (CHOOSE i \in hits : \A j \in hits : i >= j) - 1

\* text[a:b]: a negative index counts from the end, both are clamped.
PySlice(text, a, b) ==
  LET n == Len(text)
      lo == IF a < 0 THEN Max(a + n, 0) ELSE Min(a, n)
      hi == IF b < 0 THEN Max(b + n, 0) ELSE Min(b, n)
  IN SubSeq(text, lo + 1, hi)

\* ------------------------------------------------------------ json.loads
\* A scan result: ok = TRUE with the value and the 1-based position after
\* it, or ok = FALSE with the exception the scanner raises.
Fail == [ok |-> FALSE, exc |-> "JSONDecodeError", val |-> NoVal, next |-> 0]
Done(v, n) == [ok |-> TRUE, exc |-> "", val |-> v, next |-> n]

RECURSIVE ScanValue(_, _)
RECURSIVE ScanMembers(_, _, _)

\* scan_once: a string, an object, or the constant NaN (json.loads accepts
\* it); anything else, or the end of the text, is "Expecting value".
ScanValue(s, i) ==
  IF i > Len(s) THEN Fail
  ELSE IF s[i] \in StringLits THEN Done(Str(s[i]), i + 1)
  ELSE IF s[i] = "NaN" THEN Done(Nan, i + 1)
  ELSE IF s[i] = "{" THEN
    IF i + 1 <= Len(s) /\ s[i + 1] = "}" THEN Done(EmptyObj, i + 2)
    ELSE ScanMembers(s, i + 1, <<>>)
  ELSE Fail

\* JSONObject: at i a property name is expected, then ":", a value, and
\* "," (followed by another property name) or "}".
ScanMembers(s, i, acc) ==
  IF i > Len(s) \/ s[i] \notin StringLits THEN Fail
  ELSE IF i + 1 > Len(s) \/ s[i + 1] # ":" THEN Fail
  ELSE LET r == ScanValue(s, i + 2)
       IN IF ~r.ok THEN Fail
          ELSE IF r.next > Len(s) THEN Fail
          ELSE IF s[r.next] = "}" THEN Done(Obj(Put(acc, s[i], r.val)), r.next + 1)
          ELSE IF s[r.next] = "," THEN ScanMembers(s, r.next + 1, Put(acc, s[i], r.val))
          ELSE Fail

\* json.loads(s): one value, then nothing ("Extra data" otherwise).
loads(s) ==
  LET r == ScanValue(s, 1)
  IN IF r.ok /\ r.next = Len(s) + 1 THEN r ELSE Fail

\* ------------------------------------------------------------ json.dumps
\* dict order: the keys in a fixed insertion order.
KeyOrder == <<"k", "rollup_suggestions", "druid_ingestion_spec">>

RECURSIVE dumps(_)
RECURSIVE DumpMembers(_, _, _)

\* The members of dict m whose keys are KeyOrder[i..], "," between them.
DumpMembers(m, i, first) ==
  IF i > Len(KeyOrder) THEN <<>>
  ELSE IF KeyOrder[i] \notin DOMAIN m THEN DumpMembers(m, i + 1, first)
  ELSE (IF first THEN <<>> ELSE <<",">>) \o <<KeyOrder[i], ":">>
       \o dumps(m[KeyOrder[i]]) \o DumpMembers(m, i + 1, FALSE)

dumps(v) ==
  IF v.t = "str" THEN <<v.s>>
  ELSE IF v.t = "nan" THEN <<"NaN">>
  ELSE <<"{">> \o DumpMembers(v.m, 1, TRUE) \o <<"}">>

\* ------------------------------------------------------------ extract_json
\* What a call gives back: exc = "" and the returned value, or the name of
\* the exception that leaves the call.
Return(v) == [exc |-> "", ret |-> v]
Raise(e) == [exc |-> e, ret |-> NoVal]

\* The slice and parse with no try/except around them.
extract_json_uncaught(text) ==
  LET json_start == find(text, "{")
      json_end == rfind(text, "}") + 1
  IN IF json_start # -1 /\ json_end # -1
     THEN LET r == loads(PySlice(text, json_start, json_end))
          IN IF r.ok THEN Return(r.val) ELSE Raise(r.exc)
     ELSE Return(EmptyObj)

\* json_end taken as rfind("}") without the + 1.
extract_json_offByOne(text) ==
  LET json_start == find(text, "{")
      json_end == rfind(text, "}")
  IN IF json_start # -1 /\ json_end # -1
     THEN LET r == loads(PySlice(text, json_start, json_end))
          IN IF r.ok THEN Return(r.val)
             ELSE IF r.exc = "JSONDecodeError" THEN Return(EmptyObj)
             ELSE Raise(r.exc)
     ELSE Return(EmptyObj)

\* The whole text parsed, with no search for the braces.
extract_json_whole(text) ==
  LET r == loads(text)
  IN IF r.ok THEN Return(r.val)
     ELSE IF r.exc = "JSONDecodeError" THEN Return(EmptyObj)
     ELSE Raise(r.exc)

\* convert.py extract_json.  rfind(...) + 1 is never -1, so the guard is
\* decided by json_start alone; with no "}" the slice text[json_start:0] is
\* empty and json.loads raises JSONDecodeError, which is swallowed.
extract_json(text) ==
  LET json_start == find(text, "{")
      json_end == rfind(text, "}") + 1
  IN IF json_start # -1 /\ json_end # -1
     THEN LET r == loads(PySlice(text, json_start, json_end))
          IN IF r.ok THEN Return(r.val)
             ELSE IF r.exc = "JSONDecodeError" THEN Return(EmptyObj)
             ELSE Raise(r.exc)
     ELSE Return(EmptyObj)

\* druid_service.py keeps its own copy of extract_json.
druid_extract_json(text) ==
  LET json_start == find(text, "{")
      json_end == rfind(text, "}") + 1
  IN IF json_start # -1 /\ json_end # -1
     THEN LET r == loads(PySlice(text, json_start, json_end))
          IN IF r.ok THEN Return(r.val)
             ELSE IF r.exc = "JSONDecodeError" THEN Return(EmptyObj)
             ELSE Raise(r.exc)
     ELSE Return(EmptyObj)

\* ------------------------------------------------------------ provider
\* client.text_generation(prompt, max_new_tokens=500) returns a text or
\* raises; str(e) may be empty.
Messages == {"", "timeout"}
TemplateReply ==
  <<"{", "rollup_suggestions", ":", "k", ",",
    "druid_ingestion_spec", ":", "{", "k", ":", "k", "}", "}">>
PlainReply == <<"x", "{", "k", ":", "k", "}", "x">>
NanReply == <<"{", "k", ":", "NaN", "}">>
Replies == TextsUpTo(MaxReply) \cup {TemplateReply, PlainReply, NanReply}

Text(t) == [kind |-> "text", text |-> t, msg |-> ""]
Raised(m) == [kind |-> "raise", text |-> <<>>, msg |-> m]
NoReply == [kind |-> "none", text |-> <<>>, msg |-> ""]

ErrorObj(msg) == Obj([x \in {"error"} |-> Str(msg)])

\* try: extract_json(client.text_generation(...)) with the provider's
\* exception left to escape.
get_ai_response_uncaught(r) ==
  IF r.kind = "raise" THEN Raise("ProviderError") ELSE extract_json(r.text)

\* except Exception: return {} in place of {"error": str(e)}.
get_ai_response_swallow(r) ==
  IF r.kind = "raise" THEN Return(EmptyObj) ELSE extract_json(r.text)

\* convert.py get_ai_response, resumed with the provider's outcome r: any
\* Exception of the call or of extract_json becomes {"error": str(e)}.
get_ai_response(r) ==
  IF r.kind = "raise" THEN Return(ErrorObj(r.msg))
  ELSE LET x == extract_json(r.text)
       IN IF x.exc = "" THEN x ELSE Return(ErrorObj(x.exc))

\* druid_service.py suggest_druid_rollups_and_ingestion_spec, resumed with
\* the provider's outcome r.
suggest_druid_rollups_and_ingestion_spec(r) ==
  IF r.kind = "raise" THEN Return(ErrorObj(r.msg))
  ELSE LET x == druid_extract_json(r.text)
       IN IF x.exc = "" THEN x ELSE Return(ErrorObj(x.exc))

\* ------------------------------------------------------------ handlers
Endpoints == {"analyze-event", "suggest-dataset-name", "suggest-druid-rollups"}
\* await request.json(): raises on a malformed body, else a dict or another
\* JSON value.
Bodies == {"malformed", "object", "other"}

List1(s) == [t |-> "list", s |-> s, m |-> <<>>]
DefaultNames == Obj([x \in {"dataset_names"} |-> List1("Default_Dataset")])
InvalidInput == ErrorObj("Invalid JSON input")

\* bool(v) of Python: an empty dict or str is falsy.
Truthy(v) ==
  IF v.t = "obj" THEN DOMAIN v.m # {}
  ELSE IF v.t = "str" THEN v.s # ""
  ELSE v.t # "none"

\* isinstance(request_data, dict) with the test left out.
is_dict_any(b) == TRUE

\* isinstance(request_data, dict)
is_dict(b) == b = "object"

\* The response content with no default substituted.
dataset_content_asis(response) == response

\* response or {"dataset_names": ["Default_Dataset"]}
dataset_content(response) == IF Truthy(response) THEN response ELSE DefaultNames

\* JSONResponse renders its content when it is constructed, with
\* json.dumps(..., allow_nan=False): a nan anywhere in it raises ValueError.
RECURSIVE Renderable(_)
Renderable(v) ==
  IF v.t = "nan" THEN FALSE
  ELSE IF v.t = "obj" THEN \A k \in DOMAIN v.m : Renderable(v.m[k])
  ELSE TRUE

JSONResponse(content, status_code) == [status |-> status_code, content |-> content]
NoResponse == [status |-> 0, content |-> NoVal]

\* ------------------------------------------------------------ state
VARIABLES
  pc,        \* "idle", "awaiting" (suspended in text_generation), "done"
  endpoint,  \* the route of the request
  body,      \* what request.json() gives
  prompt,    \* the prompt handed to the provider, <<>> when none was built
  calls,     \* calls of client.text_generation made for the request
  reply,     \* the provider's outcome
  result,    \* what get_ai_response / suggest_druid_... returned
  response,  \* the JSONResponse the handler returned
  escaped,   \* the exception that left the handler, "" when none did
  trace,     \* the steps of the request, in program order
  value,     \* the object serialized into text (round trip)
  text,      \* the argument of extract_json
  out        \* its outcome

reqvars == <<pc, endpoint, body, prompt, calls, reply, result, response, escaped, trace>>
funvars == <<value, text, out>>
vars == <<reqvars, funvars>>

Pending == [exc |-> "pending", by |-> "", ret |-> NoVal]
By(f, x) == [exc |-> x.exc, by |-> f, ret |-> x.ret]

NoRequest ==
  /\ pc = "idle" /\ endpoint = "" /\ body = "" /\ prompt = <<>> /\ calls = 0
  /\ reply = NoReply /\ result = Return(NoVal) /\ response = NoResponse
  /\ escaped = "" /\ trace = <<>>

NoFunction == value = NoVal /\ text = <<>> /\ out = Pending

\* ------------------------------------------------------------ requests
Init == NoRequest /\ NoFunction

\* The handler from arrival to the first await of the provider, or to its
\* end when it never gets there.
Crash(e, b) ==
  /\ pc' = "done" /\ endpoint' = e /\ body' = b
  /\ escaped' = "JSONDecodeError" /\ trace' = <<"parse">>
  /\ UNCHANGED <<prompt, calls, reply, result, response>>

Invoke(e, b, task) ==
  /\ pc' = "awaiting" /\ endpoint' = e /\ body' = b
  /\ prompt' = <<task, b>>
  /\ calls' = calls + 1
  /\ trace' = <<"parse", "prompt", "call">>
  /\ UNCHANGED <<reply, result, response, escaped>>

analyze_event(b) ==
  /\ pc = "idle"
  /\ IF b = "malformed" THEN Crash("analyze-event", b)
     ELSE IF ~is_dict(b)
     THEN /\ pc' = "done" /\ endpoint' = "analyze-event" /\ body' = b
          /\ response' = JSONResponse(InvalidInput, 400)
          /\ trace' = <<"parse", "respond">>
          /\ UNCHANGED <<prompt, calls, reply, result, escaped>>
     ELSE Invoke("analyze-event", b, "identify_fields")
  /\ UNCHANGED funvars

suggest_dataset_name(b) ==
  /\ pc = "idle"
  /\ IF b = "malformed" THEN Crash("suggest-dataset-name", b)
     ELSE Invoke("suggest-dataset-name", b, "dataset_names")
  /\ UNCHANGED funvars

suggest_druid_rollups(b) ==
  /\ pc = "idle"
  /\ IF b = "malformed" THEN Crash("suggest-druid-rollups", b)
     ELSE Invoke("suggest-druid-rollups", b, "druid_rollups")
  /\ UNCHANGED funvars

\* The rest of the handler, resumed with the provider's outcome r.
Resume(r) ==
  LET res == IF endpoint = "suggest-druid-rollups"
             THEN suggest_druid_rollups_and_ingestion_spec(r)
             ELSE get_ai_response(r)
      content == IF endpoint = "suggest-dataset-name"
                 THEN dataset_content(res.ret) ELSE res.ret
  IN /\ pc' = "done"
     /\ reply' = r
     /\ result' = res
     /\ IF res.exc # ""
        THEN /\ response' = NoResponse
             /\ escaped' = res.exc
             /\ trace' = trace
        ELSE IF ~Renderable(content)
        THEN /\ response' = NoResponse
             /\ escaped' = "ValueError"
             /\ trace' = trace \o <<"extract">>
        ELSE /\ response' = JSONResponse(content, 200)
             /\ escaped' = ""
             /\ trace' = trace \o <<IF r.kind = "raise" THEN "caught" ELSE "extract", "respond">>
     /\ UNCHANGED <<endpoint, body, prompt, calls>>
     /\ UNCHANGED funvars

text_generation_returns ==
  /\ pc = "awaiting"
  /\ \E t \in Replies : Resume(Text(t))

text_generation_raises ==
  /\ pc = "awaiting"
  /\ \E m \in Messages : Resume(Raised(m))

Next ==
  \/ \E b \in Bodies : analyze_event(b)
  \/ \E b \in Bodies : suggest_dataset_name(b)
  \/ \E b \in Bodies : suggest_druid_rollups(b)
  \/ text_generation_returns
  \/ text_generation_raises

Spec == Init /\ [][Next]_vars

\* ------------------------------------------------------------ extract_json alone
\* Texts beyond the enumerated length: a trailing comma, two independent
\* fragments, the documented rollup reply.
TrailingComma == <<"{", "k", ":", "k", ",", "}">>
TwoFragments == <<"{", "k", ":", "k", "}", "x", "{", "k", ":", "k", "}">>
Texts == TextsUpTo(MaxText) \cup {TrailingComma, TwoFragments, TemplateReply}

InitExtract == NoRequest /\ value = NoVal /\ text \in Texts /\ out = Pending

Extract ==
  /\ out = Pending
  /\ out' = By("convert", extract_json(text))
  /\ UNCHANGED <<reqvars, value, text>>

ExtractDruid ==
  /\ out = Pending
  /\ out' = By("druid_service", druid_extract_json(text))
  /\ UNCHANGED <<reqvars, value, text>>

NextExtract == Extract \/ ExtractDruid

SpecExtract == InitExtract /\ [][NextExtract]_vars

\* ------------------------------------------------------------ round trip
GenKeys == {"k", "rollup_suggestions"}
PadAlphabet == {"x", ","}

RECURSIVE Objects(_)
Objects(d) ==
  IF d = 0 THEN {}
  ELSE LET vals == {Str("k")} \cup Objects(d - 1)
       IN {Obj(m) : m \in UNION {[K -> vals] : K \in SUBSET GenKeys}}

RECURSIVE PadsOfLen(_)
PadsOfLen(n) ==
  IF n = 0 THEN {<<>>}
  ELSE {Append(t, c) : t \in PadsOfLen(n - 1), c \in PadAlphabet}
Pads == UNION {PadsOfLen(i) : i \in 0..MaxPad}

InitRoundTrip ==
  /\ NoRequest
  /\ value \in Objects(MaxDepth)
  /\ \E pre \in Pads, post \in Pads : text = pre \o dumps(value) \o post
  /\ out = Pending

NextRoundTrip == Extract \/ ExtractDruid

SpecRoundTrip == InitRoundTrip /\ [][NextRoundTrip]_vars

\* ------------------------------------------------------------ properties
Has(t, c) == \E i \in 1..Len(t) : t[i] = c

\* The span from the first "{" to the last "}", both included.
Span(t) == PySlice(t, find(t, "{"), rfind(t, "}") + 1)

\* The text holds a "{" whose span to the last "}" json.loads accepts.
Parses(t) == Has(t, "{") /\ loads(Span(t)).ok

\* Valid JSON (RFC 8259): the bare constant NaN is no JSON value.
ValidJSON(s) == loads(s).ok /\ ~Has(s, "NaN")

Called == pc = "done" /\ reply # NoReply

\* C1 (as stated): on /api/suggest-dataset-name/, when the provider call
\* raises or the reply text yields no parseable JSON object, the response
\* body is exactly {"dataset_names": ["Default_Dataset"]}.
C1_Original ==
  (Called /\ endpoint = "suggest-dataset-name"
     /\ (reply.kind = "raise" \/ ~Parses(reply.text)))
  => response.content = DefaultNames

\* C1 (amended): on /api/suggest-dataset-name/, a reply text that yields no
\* parseable JSON object gives exactly the default body; a raising provider
\* call gives {"error": str(e)} instead.
C1_Amended ==
  /\ (Called /\ endpoint = "suggest-dataset-name"
        /\ reply.kind = "text" /\ ~Parses(reply.text))
     => response = JSONResponse(DefaultNames, 200)
  /\ (Called /\ endpoint = "suggest-dataset-name" /\ reply.kind = "raise")
     => response.content = ErrorObj(reply.msg)

C1_Witness ==
  /\ Called /\ endpoint = "suggest-dataset-name"
  /\ reply.kind = "text" /\ Has(reply.text, "{") /\ ~Parses(reply.text)
  /\ response.content = DefaultNames

\* C2: on each endpoint a provider call that raises is caught: the request
\* completes with HTTP 200 and body {"error": str(e)}, and no exception
\* leaves the handler.
C2_ProviderFailureCaught ==
  (Called /\ reply.kind = "raise")
  => /\ response = JSONResponse(ErrorObj(reply.msg), 200)
     /\ escaped = ""

C2_Witness ==
  /\ Called /\ reply.kind = "raise" /\ reply.msg = ""
  /\ endpoint = "suggest-dataset-name"
  /\ response.status = 200 /\ HasKey(response.content, "error")

\* C3: /api/analyze-event/ with a JSON body that is no object answers 400
\* {"error": "Invalid JSON input"} and ends with no prompt built and no
\* provider call.
C3_NonObjectRejected ==
  (endpoint = "analyze-event" /\ body = "other")
  => /\ pc = "done"
     /\ response = JSONResponse(InvalidInput, 400)
     /\ prompt = <<>> /\ calls = 0 /\ reply = NoReply

C3_Witness ==
  /\ pc = "done" /\ endpoint = "analyze-event" /\ body = "other"
  /\ response.status = 400

\* C4 (as stated): /api/analyze-event/ with a malformed body answers 400
\* with {"error": message}, and no exception leaves the handler.
C4_MalformedAnswered400 ==
  (pc = "done" /\ endpoint = "analyze-event" /\ body = "malformed")
  => /\ response.status = 400
     /\ HasKey(response.content, "error")
     /\ escaped = ""

\* C5: a text with no "{" or with no "}" makes extract_json return {}.
C5_NoBraceGivesEmpty ==
  (out # Pending /\ (~Has(text, "{") \/ ~Has(text, "}")))
  => out.exc = "" /\ out.ret = EmptyObj

C5_Witness ==
  /\ out # Pending /\ out.by = "convert"
  /\ Has(text, "{") /\ ~Has(text, "}")
  /\ out.ret = EmptyObj

\* C6 (as stated): when the span from the first "{" to the last "}" is not
\* valid JSON, extract_json returns {} and raises nothing.
C6_InvalidSpanGivesEmpty ==
  (out # Pending /\ Has(text, "{") /\ Has(text, "}") /\ ~ValidJSON(Span(text)))
  => out.exc = "" /\ out.ret = EmptyObj

\* C7: the serialization of a JSON object, alone between brace-free texts,
\* is extracted to an equal object.
C7_RoundTrip ==
  out # Pending => out.exc = "" /\ out.ret = value

C7_Witness ==
  /\ out # Pending /\ out.by = "convert" /\ out.ret = value
  /\ \E k \in DOMAIN value.m : IsObj(value.m[k]) /\ DOMAIN value.m[k].m # {}
  /\ text[1] # "{" /\ text[Len(text)] # "}"

\* C8 (as stated): on /api/suggest-druid-rollups/, when extraction of the
\* reply succeeds, the response body has the keys rollup_suggestions and
\* druid_ingestion_spec, the latter an object.
C8_Original ==
  (Called /\ endpoint = "suggest-druid-rollups"
     /\ reply.kind = "text" /\ Parses(reply.text))
  => /\ HasKey(response.content, "rollup_suggestions")
     /\ HasKey(response.content, "druid_ingestion_spec")
     /\ IsObj(response.content.m["druid_ingestion_spec"])

\* C8 (amended): on /api/suggest-druid-rollups/, when extraction of the
\* reply succeeds, the handler answers with exactly the object parsed from
\* the reply, whatever its keys: HTTP 200 with that body, or, when the
\* object holds a NaN, the ValueError of JSONResponse.
C8_Amended ==
  (Called /\ endpoint = "suggest-druid-rollups"
     /\ reply.kind = "text" /\ Parses(reply.text))
  => /\ result = Return(loads(Span(reply.text)).val)
     /\ IF Renderable(result.ret)
        THEN response = JSONResponse(result.ret, 200) /\ escaped = ""
        ELSE response = NoResponse /\ escaped = "ValueError"

C8_Witness ==
  /\ Called /\ endpoint = "suggest-druid-rollups"
  /\ reply = Text(TemplateReply)
  /\ HasKey(response.content, "rollup_suggestions")
  /\ HasKey(response.content, "druid_ingestion_spec")

C10_ResultIsObject ==
  Called
  => /\ result.exc = ""
     /\ IsObj(result.ret)
     /\ IF reply.kind = "raise"
        THEN result.ret = ErrorObj(reply.msg)
        ELSE \/ result.ret = EmptyObj
             \/ Parses(reply.text) /\ result.ret = loads(Span(reply.text)).val

C10_Witness ==
  /\ Called /\ endpoint = "analyze-event"
  /\ reply.kind = "text" /\ ~Has(reply.text, "{") /\ loads(reply.text).ok
  /\ result.ret = EmptyObj
====
